---- MODULE Spec2Model ----
(***************************************************************************)
(* Model of src/core.rs: ViewSignal::new renders a sample buffer into an   *)
(* RGB image.  find_highest_sample accumulates a "highest" value, the      *)
(* scale is 1.0 / highest, and draw_wave draws one vertical line segment   *)
(* per sample.  Samples are f32 (the instantiation used by the test at     *)
(* src/core.rs:197); f32 arithmetic is modelled bit-exactly (24-bit        *)
(* significand, round to nearest even) and i32 arithmetic keeps its width. *)
(***************************************************************************)
EXTENDS Integers, Sequences, FiniteSets, TLC

(***************************************************************************)
(* Bounds of the model.                                                    *)
(***************************************************************************)
\* samples are multiples of 2^-SampleShift
SampleShift == 1
\* render inputs: sample numerators in -MaxNum..MaxNum, buffers up to MaxLen
MaxNum == 2
MaxLen == 2
MaxWidth == 4
MaxHeight == 4
\* peak inputs: integer-valued samples in -PeakNeg..PeakMax, up to PeakLen
PeakNeg == 1
PeakMax == 8
PeakLen == 4
\* column inputs: all-zero buffers up to ColLen samples, widths up to ColWidth
ColLen == 23
ColWidth == 23

(***************************************************************************)
(* i32 arithmetic (Rust): overflow panics when overflow checks are on and  *)
(* wraps otherwise.                                                        *)
(***************************************************************************)
I32Max == 2147483647
I32Min == (-I32Max) - 1

\* a + b for a >= 0 : [ovf |-> overflowed, val |-> wrapped result]
I32Add(a, b) ==
  IF b > I32Max - a
    THEN [ovf |-> TRUE, val |-> I32Min + ((a - (I32Max - b)) - 1)]
    ELSE [ovf |-> FALSE, val |-> a + b]

\* v - a for a >= 0 : [ovf |-> overflowed, val |-> wrapped result]
I32SubSmall(v, a) ==
  IF v < I32Min + a
    THEN [ovf |-> TRUE, val |-> I32Max - ((a - (v - I32Min)) - 1)]
    ELSE [ovf |-> FALSE, val |-> v - a]

\* a - b for a >= 0 : [ovf |-> overflowed, val |-> wrapped result]
I32Sub(a, b) ==
  IF b < a - I32Max
    THEN [ovf |-> TRUE, val |-> ((a + I32Min) - b) + I32Min]
    ELSE [ovf |-> FALSE, val |-> a - b]

\* (v).abs() : overflows exactly on i32::MIN, where the wrapped result is MIN
I32Abs(v) ==
  IF v = I32Min THEN [ovf |-> TRUE, val |-> I32Min]
  ELSE [ovf |-> FALSE, val |-> IF v < 0 THEN -v ELSE v]

(***************************************************************************)
(* f32 values: cls is "fin", "inf" or "nan"; a finite value is             *)
(* sgn * m * 2^e with m < 2^24, kept canonical (m odd, or m = 0 and e = 0).*)
(* The inputs are small multiples of a power of two, so every exponent     *)
(* stays far inside the f32 range and no result is subnormal or overflows. *)
(***************************************************************************)
RECURSIVE BitLen(_)
BitLen(n) == IF n = 0 THEN 0 ELSE 1 + BitLen(n \div 2)

RECURSIVE Canon(_, _, _)
Canon(sgn, m, e) ==
  IF m = 0 THEN [cls |-> "fin", sgn |-> 1, m |-> 0, e |-> 0]
  ELSE IF m % 2 = 0 THEN Canon(sgn, m \div 2, e + 1)
  ELSE [cls |-> "fin", sgn |-> sgn, m |-> m, e |-> e]

F32NaN == [cls |-> "nan", sgn |-> 1, m |-> 0, e |-> 0]
F32Inf(sgn) == [cls |-> "inf", sgn |-> sgn, m |-> 0, e |-> 0]

\* round sgn * (M + fraction) * 2^E to the nearest f32, ties to even;
\* sticky says that a nonzero fraction below M was cut off
F32Round(sgn, M, E, sticky) ==
  LET l == BitLen(M) IN
  IF l <= 24 THEN Canon(sgn, M, E)
  ELSE LET k    == l - 24
           q    == M \div (2^k)
           r    == M % (2^k)
           half == 2^(k - 1)
           up   == r > half \/ (r = half /\ (sticky \/ q % 2 = 1))
           q2   == IF up THEN q + 1 ELSE q
       IN  Canon(sgn, q2, E + k)

\* n as f32, exact for |n| < 2^24
F32FromInt(n) == Canon(IF n < 0 THEN -1 ELSE 1, IF n < 0 THEN -n ELSE n, 0)

\* the f32 sample whose numerator is k : k * 2^-SampleShift
F32FromSample(k) ==
  Canon(IF k < 0 THEN -1 ELSE 1, IF k < 0 THEN -k ELSE k, -SampleShift)

\* a * b in f32
F32Mul(a, b) ==
  IF a.cls = "nan" \/ b.cls = "nan" THEN F32NaN
  ELSE IF a.cls = "inf" \/ b.cls = "inf"
    THEN IF (a.cls = "fin" /\ a.m = 0) \/ (b.cls = "fin" /\ b.m = 0)
           THEN F32NaN
           ELSE F32Inf(a.sgn * b.sgn)
  ELSE F32Round(a.sgn * b.sgn, a.m * b.m, a.e + b.e, FALSE)

\* a / b in f32; the quotient of the significands is taken to 2^p with
\* p chosen so that it has at least 28 bits, in two steps of long division
F32Div(a, b) ==
  IF a.cls = "nan" \/ b.cls = "nan" THEN F32NaN
  ELSE IF a.cls = "inf"
    THEN IF b.cls = "inf" THEN F32NaN ELSE F32Inf(a.sgn * b.sgn)
  ELSE IF b.cls = "inf" THEN Canon(1, 0, 0)
  ELSE IF b.m = 0
    THEN IF a.m = 0 THEN F32NaN ELSE F32Inf(a.sgn * b.sgn)
  ELSE IF a.m = 0 THEN Canon(1, 0, 0)
  ELSE LET p  == 29 - (BitLen(a.m) - BitLen(b.m))
           p1 == 16
           p2 == p - p1
           n1 == a.m * (2^p1)
           q1 == n1 \div b.m
           r1 == n1 % b.m
           n2 == r1 * (2^p2)
           q2 == n2 \div b.m
           r2 == n2 % b.m
       IN  F32Round(a.sgn * b.sgn, q1 * (2^p2) + q2, (a.e - b.e) - p, r2 # 0)

\* f as i32 (Rust): truncation toward zero, saturating, NaN gives 0
F32ToI32(f) ==
  IF f.cls = "nan" THEN 0
  ELSE IF f.cls = "inf" THEN (IF f.sgn = 1 THEN I32Max ELSE I32Min)
  ELSE IF f.m = 0 THEN 0
  ELSE IF f.e >= 0
    THEN IF BitLen(f.m) + f.e >= 32
           THEN (IF f.sgn = 1 THEN I32Max ELSE I32Min)
           ELSE f.sgn * (f.m * (2^(f.e)))
  ELSE IF f.e <= -31 THEN 0
  ELSE f.sgn * (f.m \div (2^(-(f.e))))

(***************************************************************************)
(* State of one call of ViewSignal::new.                                   *)
(***************************************************************************)
VARIABLES
  pc,               \* position in ViewSignal::new
  sound,            \* the sample buffer, as numerators of 2^-SampleShift
  desired_size,     \* <<width, height>>
  wave_color,
  background_color,
  overflow_checks,  \* the build panics on integer overflow (else it wraps)
  image,            \* dst_image
  highest_value,    \* find_highest_sample's running value (a numerator)
  scan_i,           \* samples scanned so far
  wave_ratio,       \* 1.0 / highest, an f32
  i,                \* draw_wave's loop index
  segs              \* the segments handed to the line drawing, in order

vars == <<pc, sound, desired_size, wave_color, background_color,
          overflow_checks, image, highest_value, scan_i, wave_ratio, i, segs>>

RECURSIVE SeqsUpTo(_, _)
SeqsUpTo(S, n) ==
  IF n = 0 THEN {<<>>}
  ELSE LET shorter == SeqsUpTo(S, n - 1)
       IN  shorter \cup {Append(q, x) : q \in {t \in shorter : Len(t) = n - 1}, x \in S}

Black == <<0, 0, 0>>
Red == <<255, 0, 0>>

NoImage == [made |-> FALSE, width |-> 0, height |-> 0, px |-> [p \in {} |-> Black]]

InitRest ==
  /\ wave_color = Red
  /\ highest_value = 0
  /\ scan_i = 0
  /\ wave_ratio = Canon(1, 0, 0)
  /\ i = 0
  /\ segs = <<>>

\* any buffer, any size including zero, either build
Init ==
  /\ sound \in SeqsUpTo((-MaxNum)..MaxNum, MaxLen)
  /\ desired_size \in (0..MaxWidth) \X (0..MaxHeight)
  /\ background_color = Black
  /\ overflow_checks \in BOOLEAN
  /\ pc = "new"
  /\ image = NoImage
  /\ InitRest

\* find_highest_sample alone, entered with a one-pixel canvas made, on
\* buffers of integer-valued samples
InitPeak ==
  /\ sound \in SeqsUpTo({k * (2^SampleShift) : k \in (-PeakNeg)..PeakMax}, PeakLen)
  /\ desired_size = <<1, 1>>
  /\ background_color = Black
  /\ overflow_checks = FALSE
  /\ pc = "scan"
  /\ image = [made |-> TRUE, width |-> 1, height |-> 1,
              px |-> [p \in {<<0, 0>>} |-> Black]]
  /\ InitRest

\* long silent buffers on wide one-row images, for the column of a sample
InitCol ==
  /\ sound \in {[j \in 1..n |-> 0] : n \in 1..ColLen}
  /\ desired_size \in (1..ColWidth) \X {1}
  /\ background_color = Black
  /\ overflow_checks = FALSE
  /\ pc = "new"
  /\ image = NoImage
  /\ InitRest

(***************************************************************************)
(* ViewSignal::new, lines 33-47: the canvas.                               *)
(***************************************************************************)
\* the buffer as allocated on line 36, the chunks_mut loop left out
FillBackground255(width, height, bg) ==
  [p \in (0..(width - 1)) \X (0..(height - 1)) |-> <<255, 255, 255>>]

\* the buffer after the chunks_mut loop: every pixel is the background
FillBackground(width, height, bg) ==
  [p \in (0..(width - 1)) \X (0..(height - 1)) |-> bg]

\* ImageBuffer::from_raw(width, height, buffer) is Some exactly when the
\* buffer holds at least width * height * 3 bytes
FromRawOk(width, height, buflen) == buflen >= width * height * 3

NewCanvas ==
  /\ pc = "new"
  /\ LET width  == desired_size[1]
         height == F32ToI32(F32FromInt(desired_size[2]))
         buflen == desired_size[1] * height * 3
     IN  IF FromRawOk(width, height, buflen)
           THEN /\ image' = [made |-> TRUE, width |-> width, height |-> height,
                             px |-> FillBackground(width, height, background_color)]
                /\ pc' = "scan"
           ELSE /\ image' = image
                /\ pc' = "panic"
  /\ UNCHANGED <<sound, desired_size, wave_color, background_color,
                 overflow_checks, highest_value, scan_i, wave_ratio, i, segs>>

(***************************************************************************)
(* find_highest_sample, lines 92-100, and the scale, lines 50-51.          *)
(***************************************************************************)
\* the loop body as a running maximum: the record replaces the running value
ScanUpdateAssign(highest, s) == IF s > highest THEN s ELSE highest

\* the loop body with the comparison turned around
ScanUpdateLess(highest, s) == IF s < highest THEN highest + s ELSE highest

\* one iteration of the loop; the f32 sum of two numerators is exact
ScanUpdate(highest, s) == IF s > highest THEN highest + s ELSE highest

ScanStep ==
  /\ pc = "scan"
  /\ scan_i < Len(sound)
  /\ highest_value' = ScanUpdate(highest_value, sound[scan_i + 1])
  /\ scan_i' = scan_i + 1
  /\ UNCHANGED <<pc, sound, desired_size, wave_color, background_color,
                 overflow_checks, image, wave_ratio, i, segs>>

WaveRatio(highest) == F32Div(F32FromInt(1), F32FromSample(highest))

ScanReturn ==
  /\ pc = "scan"
  /\ scan_i = Len(sound)
  /\ wave_ratio' = WaveRatio(highest_value)
  /\ pc' = "draw"
  /\ UNCHANGED <<sound, desired_size, wave_color, background_color,
                 overflow_checks, image, highest_value, scan_i, i, segs>>

(***************************************************************************)
(* draw_antialiased_line_segment_mut(image, start, end, color,             *)
(* interpolate) for the segments draw_wave makes: start and end share the  *)
(* column.  Pixels outside the canvas are not plotted (Plotter::in_bounds), *)
(* so only the pixels of img.px change.  The result is [panic, px].        *)
(***************************************************************************)
\* interpolate(left, right, left_weight) at the weights 1.0 and 0.0
Interpolate(left, right, left_weight) == IF left_weight = 1 THEN left ELSE right

DrawLine(img, start, end, color, checks) ==
  LET x0  == start[1]
      y0  == start[2]
      y1  == end[2]
      dy  == I32SubSmall(y1, y0)
      ady == I32Abs(dy.val)
      is_steep == ady.val > 0
      lo  == IF y0 > y1 THEN y1 ELSE y0
      hi  == IF y0 > y1 THEN y0 ELSE y1
      \* plot_wu_line along the rows lo..hi: weight 1.0 on the column,
      \* weight fract = 0.0 on the next column
      steep == [p \in DOMAIN img.px |->
                 IF p[2] >= lo /\ p[2] <= hi /\ p[1] = x0
                   THEN Interpolate(color, img.px[p], 1)
                 ELSE IF p[2] >= lo /\ p[2] <= hi /\ p[1] = x0 + 1
                   THEN Interpolate(color, img.px[p], 0)
                 ELSE img.px[p]]
      \* plot_wu_line along the one column x0: weight 1.0 on the row y0,
      \* weight 0.0 on the next row
      flat  == [p \in DOMAIN img.px |->
                 IF p = <<x0, y0>> THEN Interpolate(color, img.px[p], 1)
                 ELSE IF p = <<x0, y0 + 1>> THEN Interpolate(color, img.px[p], 0)
                 ELSE img.px[p]]
  IN  IF checks /\ (dy.ovf \/ ady.ovf)
        THEN [panic |-> TRUE, px |-> img.px]
        ELSE [panic |-> FALSE, px |-> IF is_steep THEN steep ELSE flat]

(***************************************************************************)
(* draw_wave, lines 122-143.                                               *)
(***************************************************************************)
\* line 127, 129: the column of sample k of n on a canvas width pixels wide
ImWidth(k, n, width) ==
  F32ToI32(F32Mul(F32Div(F32FromInt(k), F32FromInt(n)), F32FromInt(width)))

\* line 131: the scaled amplitude
Scaled(sample, ratio) == F32Mul(F32FromSample(sample), ratio)

\* lines 134, 139: the displacement (height / 2.0 * s), still an f32
Displacement(height, s) ==
  F32Mul(F32Div(F32FromInt(height), F32FromInt(2)), s)

\* the displacement rounded away from zero instead of truncated
DisplacementRowsAway(d) ==
  IF d.cls = "fin" /\ d.e < 0 /\ d.m # 0
    THEN F32ToI32(d) + d.sgn
    ELSE F32ToI32(d)

\* lines 134, 139: (height / 2.0 * s) as i32
DisplacementRows(d) == F32ToI32(d)

\* line 132: height as i32 / 2
CenterRow(height) == F32ToI32(F32FromInt(height)) \div 2

\* the end row with the displacement added at every index
EndRowAlwaysAdd(k, center, rows) == I32Add(center, rows)

\* lines 133-140: the end row, by the parity of the index
EndRow(k, center, rows) ==
  IF k % 2 = 0 THEN I32Add(center, rows) ELSE I32Sub(center, rows)

DrawStep ==
  /\ pc = "draw"
  /\ i < Len(sound)
  /\ LET sample_len == Len(sound)
         im_width == ImWidth(i, sample_len, desired_size[1])
         s      == Scaled(sound[i + 1], wave_ratio)
         center == CenterRow(desired_size[2])
         start  == <<im_width, center>>
         disp   == Displacement(desired_size[2], s)
         rows   == DisplacementRows(disp)
         endrow == EndRow(i, center, rows)
         end    == <<im_width, endrow.val>>
         drawn  == DrawLine(image, start, end, wave_color, overflow_checks)
     IN  IF (overflow_checks /\ endrow.ovf) \/ drawn.panic
           THEN /\ pc' = "panic"
                /\ UNCHANGED <<image, i, segs>>
           ELSE /\ image' = [image EXCEPT !.px = drawn.px]
                /\ segs' = Append(segs, [idx |-> i, sample |-> sound[i + 1],
                                         s |-> s, disp |-> disp,
                                         start |-> start, end |-> end])
                /\ i' = i + 1
                /\ pc' = pc
  /\ UNCHANGED <<sound, desired_size, wave_color, background_color,
                 overflow_checks, highest_value, scan_i, wave_ratio>>

\* line 55: Self { image: dst_image }
Return ==
  /\ pc = "draw"
  /\ i = Len(sound)
  /\ pc' = "done"
  /\ UNCHANGED <<sound, desired_size, wave_color, background_color,
                 overflow_checks, image, highest_value, scan_i, wave_ratio,
                 i, segs>>

Next == NewCanvas \/ ScanStep \/ ScanReturn \/ DrawStep \/ Return

Spec == Init /\ [][Next]_vars
NextPeak == ScanStep \/ ScanReturn
SpecPeak == InitPeak /\ [][NextPeak]_vars
SpecCol == InitCol /\ [][Next]_vars

TypeOK ==
  /\ pc \in {"new", "scan", "draw", "done", "panic"}
  /\ scan_i \in 0..Len(sound)
  /\ i \in 0..Len(sound)
  /\ Len(segs) = i

(***************************************************************************)
(* Properties.                                                             *)
(***************************************************************************)
\* the vertical center, height/2
Center == desired_size[2] \div 2

\* a canvas with at least one pixel
ValidSize == desired_size[1] >= 1 /\ desired_size[2] >= 1

\* the sign of f - d for a finite f32 f and a small integer d
FCmp(f, d) ==
  LET Sign(v) == IF v > 0 THEN 1 ELSE IF v < 0 THEN -1 ELSE 0 IN
  IF f.e >= 0 THEN Sign(f.sgn * f.m * (2^(f.e)) - d)
  ELSE IF -(f.e) > 24
    THEN IF f.sgn = 1 THEN (IF d <= 0 THEN 1 ELSE -1)
                      ELSE (IF d >= 0 THEN -1 ELSE 1)
  ELSE Sign(f.sgn * f.m - d * (2^(-(f.e))))

\* the sum of the record-breaking samples of q, in scan order: a sample is a
\* record when it strictly exceeds the sum of the records before it
RecordSum(q) ==
  LET R[k \in 0..Len(q)] ==
        IF k = 0 THEN 0
        ELSE IF q[k] > R[k - 1] THEN R[k - 1] + q[k] ELSE R[k - 1]
  IN  R[Len(q)]

\* the samples 1, 5, 2, 8 and the values 14 and 8, as numerators
Example1528 == [k \in 1..4 |-> <<1, 5, 2, 8>>[k] * (2^SampleShift)]

\* C1: after scan_i samples the running value of find_highest_sample is the
\* sum of the record-breaking samples among them, so the returned value is
\* that sum over the whole buffer; on [1, 5, 2, 8] it is 14, not the peak 8.
C1_HighestIsRecordSum ==
  /\ highest_value = RecordSum(SubSeq(sound, 1, scan_i))
  /\ (sound = Example1528 /\ scan_i = Len(sound))
       => /\ highest_value = 14 * (2^SampleShift)
          /\ highest_value # 8 * (2^SampleShift)

C1_Witness ==
  /\ sound = Example1528
  /\ pc = "draw"
  /\ highest_value = 14 * (2^SampleShift)

\* C2: the column of sample idx of n on a canvas w wide is floor(w * idx / n),
\* the columns do not decrease with the index and the last one is below w.
C2_ColumnIsFloor ==
  \A k \in 1..Len(segs) :
    /\ segs[k].start[1] = (desired_size[1] * segs[k].idx) \div Len(sound)
    /\ segs[k].end[1] = segs[k].start[1]
    /\ k > 1 => segs[k - 1].start[1] <= segs[k].start[1]
    /\ segs[k].idx = Len(sound) - 1 => segs[k].start[1] < desired_size[1]

\* C10: the running value of the scan never decreases and is never negative,
\* it is at least every sample scanned, and when the returned value is
\* positive every scaled amplitude is at most 1.
C10_State ==
  /\ highest_value >= 0
  /\ \A k \in 1..scan_i : sound[k] <= highest_value
  /\ highest_value > 0 =>
       \A k \in 1..Len(segs) : segs[k].s.cls = "fin" /\ FCmp(segs[k].s, 1) <= 0

C10_RunningValue == [](C10_State) /\ [][highest_value' >= highest_value]_vars

\* a scaled amplitude below -1 under a positive returned value
C10_Witness ==
  /\ highest_value > 0
  /\ ValidSize
  /\ \E k \in 1..Len(segs) : segs[k].s.cls = "fin" /\ FCmp(segs[k].s, -1) < 0

\* the displacement of segment g as drawn: end row minus center at an even
\* index, center minus end row at an odd one
DrawnRows(g) ==
  IF g.idx % 2 = 0 THEN g.end[2] - Center ELSE Center - g.end[2]

\* r is the finite f32 d rounded to the nearest integer (a tie either way)
IsNearest(d, r) ==
  LET twice == [d EXCEPT !.e = d.e + 1]
  IN  FCmp(twice, 2 * r - 1) >= 0 /\ FCmp(twice, 2 * r + 1) <= 0

\* r is the finite f32 d truncated toward zero
IsTruncation(d, r) ==
  IF d.m = 0 THEN r = 0
  ELSE IF d.sgn = 1 THEN r >= 0 /\ FCmp(d, r) >= 0 /\ FCmp(d, r + 1) < 0
  ELSE r <= 0 /\ FCmp(d, r) <= 0 /\ FCmp(d, r - 1) > 0

\* C3 as stated (on a canvas of at least one pixel): every segment starts at
\* (x, height/2) and ends height/2 * v rows past the center, added at an
\* even index and subtracted at an odd one, the displacement rounded to the
\* nearest integer row.
C3_EndRowNearest ==
  ValidSize => \A k \in 1..Len(segs) :
    /\ segs[k].start = <<segs[k].end[1], Center>>
    /\ segs[k].disp.cls = "fin" => IsNearest(segs[k].disp, DrawnRows(segs[k]))

\* C3 amended: the displacement is the f32 product height/2 * v converted by
\* "as i32": truncated toward zero, 0 for NaN, i32::MIN for -infinity (the
\* end row is then center + i32::MIN at either parity, by wrapping).
C3_EndRowTruncated ==
  \A k \in 1..Len(segs) :
    /\ segs[k].start = <<segs[k].end[1], Center>>
    /\ segs[k].disp.cls = "fin" => IsTruncation(segs[k].disp, DrawnRows(segs[k]))
    /\ segs[k].disp.cls = "nan" => segs[k].end[2] = Center
    /\ segs[k].disp.cls = "inf" =>
         segs[k].disp.sgn = -1 /\ segs[k].end[2] = Center + I32Min

\* segments at both parities, one of them with a fractional displacement
C3_Witness ==
  /\ pc = "done"
  /\ ValidSize
  /\ \E k \in 1..Len(segs) :
       /\ segs[k].idx % 2 = 1
       /\ segs[k].disp.cls = "fin" /\ segs[k].disp.e < 0
       /\ ~IsNearest(segs[k].disp, DrawnRows(segs[k]))
  /\ \E k \in 1..Len(segs) : segs[k].idx % 2 = 0 /\ DrawnRows(segs[k]) > 0

\* the scenario samples = [0.5, -0.5], dimensions = [4, 4], red on black
Half == 2^(SampleShift - 1)
Scenario ==
  /\ sound = <<Half, -Half>>
  /\ desired_size = <<4, 4>>
  /\ wave_color = Red
  /\ background_color = Black
  /\ pc = "done"

\* C4 as stated: the scenario gives a 4x4 canvas with two segments, at
\* columns 0 and 2, that leave the center in opposite vertical directions.
C4_OppositeDirections ==
  Scenario =>
    /\ image.made /\ image.width = 4 /\ image.height = 4
    /\ Len(segs) = 2
    /\ segs[1].start[1] = 0 /\ segs[2].start[1] = 2
    /\ \/ segs[1].end[2] < Center /\ segs[2].end[2] > Center
       \/ segs[1].end[2] > Center /\ segs[2].end[2] < Center

\* C4 amended: the scenario gives a 4x4 canvas with two segments, at columns
\* 0 and 2, both from the center row 2 to row 4: the same direction.
C4_SameDirection ==
  Scenario =>
    /\ image.made /\ image.width = 4 /\ image.height = 4
    /\ Len(segs) = 2
    /\ segs[1].start = <<0, 2>> /\ segs[1].end = <<0, 4>>
    /\ segs[2].start = <<2, 2>> /\ segs[2].end = <<2, 4>>

C4_Witness == Scenario /\ Len(segs) = 2 /\ segs[2].end[2] > Center

\* pixel p lies on segment g: its column, a row from the center to the end
OnSegment(p, g) ==
  /\ p[1] = g.start[1]
  /\ \/ g.start[2] <= p[2] /\ p[2] <= g.end[2]
     \/ g.end[2] <= p[2] /\ p[2] <= g.start[2]

\* C5: when ViewSignal::new has returned for a buffer with a nonzero sample,
\* every pixel on no segment is the background color.
C5_OffSegmentIsBackground ==
  (pc = "done" /\ \E k \in 1..Len(sound) : sound[k] # 0) =>
    \A p \in DOMAIN image.px :
      (\A k \in 1..Len(segs) : ~OnSegment(p, segs[k]))
        => image.px[p] = background_color

C5_Witness ==
  /\ pc = "done"
  /\ highest_value > 0
  /\ \E k \in 1..Len(sound) : sound[k] # 0
  /\ \E p \in DOMAIN image.px : image.px[p] = wave_color
  /\ \E p \in DOMAIN image.px :
       /\ \A k \in 1..Len(segs) : ~OnSegment(p, segs[k])
       /\ p[1] \in {segs[k].start[1] + 1 : k \in 1..Len(segs)}

\* C6: on a canvas with at least one pixel, both endpoints of every segment
\* handed to the line drawing lie on the canvas: column in [0, width-1], row
\* in [0, height-1].
C6_EndpointsClamped ==
  ValidSize => \A k \in 1..Len(segs) :
    \A pt \in {segs[k].start, segs[k].end} :
      /\ 0 <= pt[1] /\ pt[1] <= desired_size[1] - 1
      /\ 0 <= pt[2] /\ pt[2] <= desired_size[2] - 1

\* C7: a call with an empty buffer (and a canvas of at least one pixel) does
\* not return an image.
C7_EmptyInputReported ==
  (ValidSize /\ Len(sound) = 0) => ~(pc = "done" /\ image.made)

\* C8: on a canvas of at least one pixel, a non-empty all-zero buffer gives
\* no panic and no segment whose coordinates come from an infinite or NaN
\* value.
C8_SilenceHasFiniteCoordinates ==
  (ValidSize /\ Len(sound) > 0 /\ \A k \in 1..Len(sound) : sound[k] = 0) =>
    /\ pc # "panic"
    /\ \A k \in 1..Len(segs) :
         segs[k].s.cls = "fin" /\ segs[k].disp.cls = "fin"

\* C9: with a zero width or height no canvas is made and nothing is scanned
\* or drawn.
C9_ZeroDimensionRejected ==
  (desired_size[1] = 0 \/ desired_size[2] = 0) =>
    /\ ~image.made
    /\ pc \in {"new", "panic"}
    /\ segs = <<>>
====
